---- MODULE Spec2Model ----
(***************************************************************************)
(* Cifra Carmesim: the row-profile dynamic programme of src/main.cpp.      *)
(* A box of L_ rows and C_ columns holds crystals; Resolve finds the       *)
(* selection of crystals of largest total brightness that respects the     *)
(* connections, and lists the selected crystals.                           *)
(***************************************************************************)
EXTENDS Integers, Sequences, FiniteSets

\* ------------------------------------------------------------------ bounds
MaxL == 3          \* rows of the box: 1..MaxL
MaxC == 3          \* columns of the box: 1..MaxC
MaxCelulas == 4    \* boxes with at most this many cells (L * C)
MaxN == 2          \* crystals read by main: 0..MaxN
MaxV == 2          \* brightness values read: -1..MaxV
MaxResolve == 2    \* calls of Resolve on one Cifra

VARIABLES
  L_,                      \* Cifra::L_
  C_,                      \* Cifra::C_
  N_,                      \* Cifra::N_ (main's N)
  lidos,                   \* main's loop counter i: crystals read so far
  caixa_,                  \* Cifra::caixa_  [linha -> [coluna -> Cristal]]
  memo_,                   \* Cifra::memo_   [linha -> [conf -> [conf_inicial -> Resposta]]]
  num_cristais_usados_,    \* Cifra::num_cristais_usados_
  max_valor_caixa_,        \* Cifra::max_valor_caixa_
  cristais_solucao_,       \* Cifra::cristais_solucao_ (sequence of <<x, y>>, 1-based)
  conf_inicial_maxima,     \* Resolve's local of that name, as the last call left it
  resolvido                \* number of calls of Resolve so far

vars == <<L_, C_, N_, lidos, caixa_, memo_, num_cristais_usados_,
          max_valor_caixa_, cristais_solucao_, conf_inicial_maxima, resolvido>>

\* ------------------------------------------------------------ bit helpers
\* (number >> bit) & 1; \div floors, as the arithmetic shift does
GET_BIT(number, bit) == (number \div (2 ^ bit)) % 2

\* number |= (1 << bit)
SET_BIT(number, bit) ==
  IF GET_BIT(number, bit) = 1 THEN number ELSE number + 2 ^ bit

\* number &= ~(1 << bit)
CLEAR_BIT(number, bit) ==
  IF GET_BIT(number, bit) = 1 THEN number - 2 ^ bit ELSE number

\* ------------------------------------------------------------ data model
Cristal(brilho, conexoes) == [brilho |-> brilho, conexoes |-> conexoes]

CristalVazio == Cristal(-1, 0)

Resposta(calculado, valor, conf) ==
  [calculado |-> calculado, valor |-> valor, conf |-> conf]

RespostaVazia == Resposta(FALSE, -1, 0)

\* 0b1 << c
NumPossibilidades(c) == 2 ^ c

num_possibilidades_ == NumPossibilidades(C_)

Linhas == 0 .. (L_ - 1)

Colunas == 0 .. (C_ - 1)

Confs == 0 .. (num_possibilidades_ - 1)

\* the box and the memo as the constructor leaves them
CaixaVazia == [i \in Linhas |-> [j \in Colunas |-> CristalVazio]]

MemoVazio == [i \in Linhas |-> [a \in Confs |-> [b \in Confs |-> RespostaVazia]]]

\* the boxes the constructor is called with
Dimensoes ==
  {d \in (1 .. MaxL) \X (1 .. MaxC) : d[1] * d[2] <= MaxCelulas}

\* ------------------------------------------------- compatibility oracle
\* EhInternamenteConsistente with the right neighbour taken as j + 1, no wrap
EhInternamenteConsistenteSemVolta(cx, linha, conf) ==
  \A j \in Colunas :
    /\ ~(GET_BIT(conf, j) = 1 /\ cx[linha][j].brilho = -1)
    /\ ~(/\ GET_BIT(conf, j) = 1
         /\ j + 1 < C_
         /\ GET_BIT(conf, j + 1) = 1
         /\ GET_BIT(cx[linha][j].conexoes, 0) = 1)

\* EhInternamenteConsistente testing that the right neighbour holds a crystal,
\* not that it is activated
EhInternamenteConsistenteVizinhoPresente(cx, linha, conf) ==
  \A j \in Colunas :
    /\ ~(GET_BIT(conf, j) = 1 /\ cx[linha][j].brilho = -1)
    /\ ~(/\ GET_BIT(conf, j) = 1
         /\ cx[linha][(j + 1) % C_].brilho # -1
         /\ GET_BIT(cx[linha][j].conexoes, 0) = 1)

EhInternamenteConsistente(cx, linha, conf) ==
  \A j \in Colunas :
    /\ ~(GET_BIT(conf, j) = 1 /\ cx[linha][j].brilho = -1)
    /\ ~(/\ GET_BIT(conf, j) = 1
         /\ GET_BIT(conf, (j + 1) % C_) = 1
         /\ GET_BIT(cx[linha][j].conexoes, 0) = 1)

\* SaoCompativeis reading bit 3 (connected down) of the lower cell, not bit 1
SaoCompativeisBit3(cx, linha, conf_i, conf_s) ==
  \A j \in Colunas :
    ~(/\ GET_BIT(conf_i, j) = 1
      /\ GET_BIT(conf_s, j) = 1
      /\ GET_BIT(cx[linha][j].conexoes, 3) # 0)

SaoCompativeis(cx, linha, conf_i, conf_s) ==
  \A j \in Colunas :
    ~(/\ GET_BIT(conf_i, j) = 1
      /\ GET_BIT(conf_s, j) = 1
      /\ GET_BIT(cx[linha][j].conexoes, 1) # 0)

\* ------------------------------------------------------------ DP engine
RECURSIVE SomaLinha(_, _, _, _)
\* the loop of f that adds the brightness of the activated columns j..C_-1
SomaLinha(cx, linha, conf, j) ==
  IF j >= C_ THEN 0
  ELSE (IF GET_BIT(conf, j) = 1 THEN cx[linha][j].brilho ELSE 0)
       + SomaLinha(cx, linha, conf, j + 1)

\* Melhora with >= for >: a later equal value replaces the maximum
MelhoraOuIguala(valor, maximo) == valor >= maximo

\* the comparison that replaces the running maximum
Melhora(valor, maximo) == valor > maximo

Memoiza(memo, linha, conf, conf_inicial, resp) ==
  [memo |-> [memo EXCEPT ![linha][conf][conf_inicial] = resp], resp |-> resp]

RECURSIVE f(_, _, _, _, _)
RECURSIVE fPoss(_, _, _, _, _, _, _, _)
RECURSIVE fPossPasso(_, _, _, _, _, _, _, _)

\* the body of the loop of f for one compatible poss, r being what
\* f(linha - 1, poss, conf_inicial) returned
fPossPasso(cx, r, linha, conf, conf_inicial, valor_linha, poss, maximo) ==
  IF r.resp.valor = -1
  THEN fPoss(cx, r.memo, linha, conf, conf_inicial, valor_linha, poss + 1, maximo)
  ELSE IF Melhora(r.resp.valor + valor_linha, maximo.valor)
  THEN fPoss(cx, r.memo, linha, conf, conf_inicial, valor_linha, poss + 1,
             Resposta(TRUE, r.resp.valor + valor_linha, poss))
  ELSE fPoss(cx, r.memo, linha, conf, conf_inicial, valor_linha, poss + 1, maximo)

\* the loop of f over the configurations poss..2^C-1 of the row above
\* (the recursive call is made once: its result is bound by the comprehension)
fPoss(cx, memo, linha, conf, conf_inicial, valor_linha, poss, maximo) ==
  IF poss >= num_possibilidades_ THEN Memoiza(memo, linha, conf, conf_inicial, maximo)
  ELSE IF ~SaoCompativeis(cx, linha, conf, poss)
  THEN fPoss(cx, memo, linha, conf, conf_inicial, valor_linha, poss + 1, maximo)
  ELSE CHOOSE res \in
         {fPossPasso(cx, r, linha, conf, conf_inicial, valor_linha, poss, maximo) :
            r \in {f(cx, memo, linha - 1, poss, conf_inicial)}} : TRUE

\* returns the memo as f leaves it, and the Resposta f returns
f(cx, memo, linha, conf, conf_inicial) ==
  IF memo[linha][conf][conf_inicial].calculado
  THEN [memo |-> memo, resp |-> memo[linha][conf][conf_inicial]]
  ELSE IF ~EhInternamenteConsistente(cx, linha, conf)
  THEN Memoiza(memo, linha, conf, conf_inicial, Resposta(TRUE, -1, 0))
  ELSE LET valor_linha == SomaLinha(cx, linha, conf, 0) IN
       IF linha = 0
       THEN IF ~SaoCompativeis(cx, linha, conf, conf_inicial)
            THEN Memoiza(memo, linha, conf, conf_inicial, Resposta(TRUE, -1, 0))
            ELSE Memoiza(memo, linha, conf, conf_inicial,
                         Resposta(TRUE, valor_linha, conf_inicial))
       ELSE fPoss(cx, memo, linha, conf, conf_inicial, valor_linha, 0,
                  Resposta(TRUE, -1, 0))

\* ------------------------------------------------------------- Resolve
RECURSIVE ResolveInicial(_, _, _, _, _)
\* the body of the first loop of Resolve, r being what f(L_ - 1, i, i) returned
ResolveInicialPasso(cx, r, i, maximo, conf_max) ==
  IF Melhora(r.resp.valor, maximo.valor)
  THEN ResolveInicial(cx, r.memo, i + 1, r.resp, i)
  ELSE ResolveInicial(cx, r.memo, i + 1, maximo, conf_max)

\* the first loop of Resolve, over the configurations i..2^C-1 of the last row
ResolveInicial(cx, memo, i, maximo, conf_max) ==
  IF i >= num_possibilidades_
  THEN [memo |-> memo, maximo |-> maximo, conf_inicial_maxima |-> conf_max]
  ELSE CHOOSE res \in
         {ResolveInicialPasso(cx, r, i, maximo, conf_max) :
            r \in {f(cx, memo, L_ - 1, i, i)}} : TRUE

RECURSIVE CristaisLinhaSemColuna0(_, _, _)
\* CristaisLinha with the loop ended at j > 0: column 0 is never listed
CristaisLinhaSemColuna0(i, conf, j) ==
  IF j <= 0 THEN <<>>
  ELSE (IF GET_BIT(conf, j) = 1 THEN << <<i + 1, j + 1>> >> ELSE <<>>)
       \o CristaisLinhaSemColuna0(i, conf, j - 1)

RECURSIVE CristaisLinhaBase0(_, _, _)
\* CristaisLinha without the adjustment of the column to 1-based
CristaisLinhaBase0(i, conf, j) ==
  IF j < 0 THEN <<>>
  ELSE (IF GET_BIT(conf, j) = 1 THEN << <<i + 1, j>> >> ELSE <<>>)
       \o CristaisLinhaBase0(i, conf, j - 1)

RECURSIVE CristaisLinhaInvertido(_, _, _)
\* CristaisLinha listing the columns whose bit is 0
CristaisLinhaInvertido(i, conf, j) ==
  IF j < 0 THEN <<>>
  ELSE (IF GET_BIT(conf, j) = 0 THEN << <<i + 1, j + 1>> >> ELSE <<>>)
       \o CristaisLinhaInvertido(i, conf, j - 1)

RECURSIVE CristaisLinhaCrescente(_, _, _)
\* CristaisLinha going through the columns 0..j upwards
CristaisLinhaCrescente(i, conf, j) ==
  IF j < 0 THEN <<>>
  ELSE CristaisLinhaCrescente(i, conf, j - 1)
       \o (IF GET_BIT(conf, j) = 1 THEN << <<i + 1, j + 1>> >> ELSE <<>>)

RECURSIVE CristaisLinha(_, _, _)
\* the inner loop of the second loop of Resolve: columns j down to 0 of row i
CristaisLinha(i, conf, j) ==
  IF j < 0 THEN <<>>
  ELSE (IF GET_BIT(conf, j) = 1 THEN << <<i + 1, j + 1>> >> ELSE <<>>)
       \o CristaisLinha(i, conf, j - 1)

RECURSIVE Percorre(_, _, _, _)
\* the second loop of Resolve: rows i down to 0, conf the configuration of row i
Percorre(memo, conf_max, i, conf) ==
  IF i < 0 THEN <<>>
  ELSE CristaisLinha(i, conf, C_ - 1)
       \o Percorre(memo, conf_max, i - 1, memo[(i + L_) % L_][conf][conf_max].conf)

\* ------------------------------------------------------------- queries
GetValoresSolucao == <<num_cristais_usados_, max_valor_caixa_>>

GetCristaisSolucao == cristais_solucao_

\* ------------------------------------------------------------- actions
Init ==
  /\ \E d \in Dimensoes : L_ = d[1] /\ C_ = d[2]
  /\ N_ \in 0 .. MaxN
  /\ lidos = 0
  /\ caixa_ = CaixaVazia
  /\ memo_ = MemoVazio
  /\ num_cristais_usados_ = 0
  /\ max_valor_caixa_ = 0
  /\ cristais_solucao_ = <<>>
  /\ conf_inicial_maxima = -1
  /\ resolvido = 0

Conexoes(d, c, e, b) ==
  LET c0 == IF d = 1 THEN SET_BIT(0, 0) ELSE CLEAR_BIT(0, 0)
      c1 == IF c = 1 THEN SET_BIT(c0, 1) ELSE CLEAR_BIT(c0, 1)
      c2 == IF e = 1 THEN SET_BIT(c1, 2) ELSE CLEAR_BIT(c1, 2)
      c3 == IF b = 1 THEN SET_BIT(c2, 3) ELSE CLEAR_BIT(c2, 3)
  IN c3

\* the box cx after AdicionaCristal(x, y, v, d, c, e, b)
CaixaComCristal(cx, x, y, v, d, c, e, b) ==
  [cx EXCEPT ![x - 1][y - 1] = Cristal(v, Conexoes(d, c, e, b))]

\* main reads one more crystal and adds it to the box
AdicionaCristal(x, y, v, d, c, e, b) ==
  /\ resolvido = 0
  /\ lidos < N_
  /\ lidos' = lidos + 1
  /\ caixa_' = CaixaComCristal(caixa_, x, y, v, d, c, e, b)
  /\ UNCHANGED <<L_, C_, N_, memo_, num_cristais_usados_, max_valor_caixa_,
                 cristais_solucao_, conf_inicial_maxima, resolvido>>

Resolve ==
  /\ lidos = N_
  /\ resolvido < MaxResolve
  /\ \E r \in {ResolveInicial(caixa_, memo_, 0, Resposta(TRUE, -1, 0), -1)} :
       \E novos \in {Percorre(r.memo, r.conf_inicial_maxima, L_ - 1,
                              r.conf_inicial_maxima)} :
         /\ memo_' = r.memo
         /\ max_valor_caixa_' = r.maximo.valor
         /\ conf_inicial_maxima' = r.conf_inicial_maxima
         /\ num_cristais_usados_' = num_cristais_usados_ + Len(novos)
         /\ cristais_solucao_' = cristais_solucao_ \o novos
  /\ resolvido' = resolvido + 1
  /\ UNCHANGED <<L_, C_, N_, lidos, caixa_>>

Next ==
  \/ \E x \in 1 .. L_, y \in 1 .. C_, v \in -1 .. MaxV,
        d \in {0, 1}, c \in {0, 1}, e \in {0, 1}, b \in {0, 1} :
       AdicionaCristal(x, y, v, d, c, e, b)
  \/ Resolve

Spec == Init /\ [][Next]_vars

\* ------------------------------------------------- definitions for the claims
Celulas == Linhas \X Colunas

\* the cells of the list of Resolve, in 0-based coordinates
Selecionados ==
  {<<cristais_solucao_[k][1] - 1, cristais_solucao_[k][2] - 1>> :
     k \in 1 .. Len(cristais_solucao_)}

LinhaAcima(r) == (r - 1 + L_) % L_

RECURSIVE SomaConj(_, _)
\* the sum of the brightness of a set of cells
SomaConj(cx, S) ==
  IF S = {} THEN 0
  ELSE LET p == CHOOSE q \in S : TRUE
       IN cx[p[1]][p[2]].brilho + SomaConj(cx, S \ {p})

RECURSIVE SomaLista(_, _)
\* the sum of the brightness of the cells of a list of 1-based <<x, y>>
SomaLista(cx, lista) ==
  IF lista = <<>> THEN 0
  ELSE cx[Head(lista)[1] - 1][Head(lista)[2] - 1].brilho + SomaLista(cx, Tail(lista))

\* the constraint system, stated on sets of cells
Viavel(cx, S) ==
  \A p \in S :
    /\ cx[p[1]][p[2]].brilho # -1
    /\ ~(GET_BIT(cx[p[1]][p[2]].conexoes, 0) = 1 /\ <<p[1], (p[2] + 1) % C_>> \in S)
    /\ ~(GET_BIT(cx[p[1]][p[2]].conexoes, 1) = 1 /\ <<LinhaAcima(p[1]), p[2]>> \in S)

\* the maximum over all subsets of cells, by enumeration
ForcaBruta(cx) ==
  LET somas == {SomaConj(cx, S) : S \in {T \in SUBSET Celulas : Viavel(cx, T)}}
  IN CHOOSE m \in somas : \A n \in somas : n <= m

\* C1: the total reported after Resolve is the maximum, over all subsets of cells
\* that satisfy the constraint system, of the sum of the selected cells' values.
Teorema_C1 ==
  resolvido >= 1 => max_valor_caixa_ = ForcaBruta(caixa_)

\* a solved 2x2 (or larger) box where a connection keeps a crystal out of the optimum
Testemunha_C1 ==
  /\ resolvido = 1
  /\ L_ >= 2 /\ C_ >= 2
  /\ max_valor_caixa_ > 0
  /\ max_valor_caixa_ < SomaConj(caixa_, {p \in Celulas : caixa_[p[1]][p[2]].brilho # -1})

Presente(p) == caixa_[p[1]][p[2]].brilho # -1

\* C2: no two cells of the same column in vertically adjacent rows (row L-1 and
\* row 0 adjacent) are both in the list when the lower one is connected up or the
\* upper one is connected down. Stated for boxes of two or more rows, where the
\* two cells are distinct.
Afirmacao_C2 ==
  (resolvido >= 1 /\ L_ >= 2) =>
    \A p \in Selecionados :
      <<LinhaAcima(p[1]), p[2]>> \in Selecionados =>
        /\ GET_BIT(caixa_[p[1]][p[2]].conexoes, 1) = 0
        /\ GET_BIT(caixa_[LinhaAcima(p[1])][p[2]].conexoes, 3) = 0

\* C3: cells (r, j) and (r, (j+1) mod C) are never both in the list when (r, j)
\* is connected right; the pair column C-1 / column 0 is included.
Teorema_C3 ==
  resolvido >= 1 =>
    \A p \in Selecionados :
      <<p[1], (p[2] + 1) % C_>> \in Selecionados =>
        GET_BIT(caixa_[p[1]][p[2]].conexoes, 0) = 0

\* a solved box whose last column holds a crystal connected right to the crystal of
\* column 0 of its row, both of positive brightness, one of them in the list
Testemunha_C3 ==
  /\ resolvido = 1
  /\ C_ >= 2
  /\ \E r \in Linhas :
       /\ GET_BIT(caixa_[r][C_ - 1].conexoes, 0) = 1
       /\ caixa_[r][C_ - 1].brilho > 0
       /\ caixa_[r][0].brilho > 0
       /\ <<r, 0>> \in Selecionados
       /\ <<r, C_ - 1>> \notin Selecionados

\* C4: after Resolve the pair of GetValoresSolucao agrees with the list of
\* GetCristaisSolucao: the total is the sum of the listed cells' values and the
\* count is the length of the list.
Teorema_C4 ==
  resolvido = 1 =>
    /\ GetValoresSolucao[2] = SomaLista(caixa_, GetCristaisSolucao)
    /\ GetValoresSolucao[1] = Len(GetCristaisSolucao)

\* a solved box with two crystals in the list and a positive total
Testemunha_C4 ==
  /\ resolvido = 1
  /\ Len(cristais_solucao_) = 2
  /\ max_valor_caixa_ >= 3

\* C5: a cell whose value is -1 (never placed, or placed with value -1) is never
\* in the list.
Teorema_C5 ==
  resolvido >= 1 => \A p \in Selecionados : p \in Celulas /\ Presente(p)

\* a solved box with a cell placed with value -1 (its connections were set) beside
\* a listed crystal
Testemunha_C5 ==
  /\ resolvido = 1
  /\ cristais_solucao_ # <<>>
  /\ \E p \in Celulas : caixa_[p[1]][p[2]].brilho = -1 /\ caixa_[p[1]][p[2]].conexoes # 0

\* C6: a second Resolve on the same box leaves GetValoresSolucao as the first
\* Resolve left it.
Afirmacao_C6 ==
  [][(resolvido >= 1 /\ resolvido' = resolvido + 1)
       => GetValoresSolucao' = GetValoresSolucao]_vars

\* the total Resolve reports for the box cx, from the memo of a new Cifra
Total(cx) == ResolveInicial(cx, MemoVazio, 0, Resposta(TRUE, -1, 0), -1).maximo.valor

\* a selection, one configuration per row, that the oracle accepts in the box cx
Selecoes == [Linhas -> Confs]

Aceita(cx, sel) ==
  \A r \in Linhas :
    /\ EhInternamenteConsistente(cx, r, sel[r])
    /\ SaoCompativeis(cx, r, sel[r], sel[LinhaAcima(r)])

\* the box with one more crystal of value 0 and no connection at the cell p
ComCristalNulo(p) == CaixaComCristal(caixa_, p[1] + 1, p[2] + 1, 0, 0, 0, 0, 0)

\* C7: before Resolve, placing one more crystal of value 0 with no connection at
\* a position that holds none does not lower the total, and every selection that
\* was feasible stays feasible.
Teorema_C7 ==
  resolvido = 0 =>
    \A p \in Celulas :
      ~Presente(p) =>
        /\ Total(ComCristalNulo(p)) >= Total(caixa_)
        /\ \A sel \in Selecoes :
             Aceita(caixa_, sel) => Aceita(ComCristalNulo(p), sel)

\* a box with a crystal of positive value connected right to an empty position:
\* with the crystal of value 0 placed there the total is still that value
Testemunha_C7 ==
  /\ resolvido = 0
  /\ C_ >= 2
  /\ \E r \in Linhas, j \in Colunas :
       /\ caixa_[r][j].brilho > 0
       /\ GET_BIT(caixa_[r][j].conexoes, 0) = 1
       /\ ~Presente(<<r, (j + 1) % C_>>)
       /\ Total(caixa_) = caixa_[r][j].brilho
       /\ Total(ComCristalNulo(<<r, (j + 1) % C_>>)) = caixa_[r][j].brilho

\* C8: with no crystal placed, Resolve ends with count 0, total 0, an empty list
\* and the winning configuration 0.
Teorema_C8 ==
  /\ (N_ = 0 /\ resolvido < MaxResolve) => ENABLED Resolve
  /\ (N_ = 0 /\ resolvido >= 1) =>
       /\ GetValoresSolucao = <<0, 0>>
       /\ GetCristaisSolucao = <<>>
       /\ conf_inicial_maxima = 0

\* a solved box of more than one row and column with no crystal
Testemunha_C8 ==
  /\ N_ = 0
  /\ resolvido = 1
  /\ L_ >= 2 /\ C_ >= 2
  /\ \A p \in Celulas : caixa_[p[1]][p[2]] = CristalVazio

\* C9: the list goes from the bottom row to the top row, within a row from the
\* last column to the first, in 1-based coordinates.
Teorema_C9 ==
  resolvido = 1 =>
    /\ \A k \in 1 .. Len(cristais_solucao_) :
         /\ cristais_solucao_[k][1] \in 1 .. L_
         /\ cristais_solucao_[k][2] \in 1 .. C_
    /\ \A k \in 1 .. (Len(cristais_solucao_) - 1) :
         \/ cristais_solucao_[k][1] > cristais_solucao_[k + 1][1]
         \/ /\ cristais_solucao_[k][1] = cristais_solucao_[k + 1][1]
            /\ cristais_solucao_[k][2] > cristais_solucao_[k + 1][2]

\* a solved box whose list holds two crystals of one row
Testemunha_C9 ==
  /\ resolvido = 1
  /\ Len(cristais_solucao_) = 2
  /\ cristais_solucao_[1][1] = cristais_solucao_[2][1]

\* the configurations of the row above that a live state (linha, conf, a) may use
Candidatas(linha, conf, a) ==
  {u \in Confs : /\ SaoCompativeis(caixa_, linha, conf, u)
                 /\ memo_[linha - 1][u][a].calculado
                 /\ memo_[linha - 1][u][a].valor # -1}

ValorCom(linha, conf, a, u) ==
  memo_[linha - 1][u][a].valor + SomaLinha(caixa_, linha, conf, 0)

Melhores(linha, conf, a) ==
  {u \in Candidatas(linha, conf, a) :
     \A w \in Candidatas(linha, conf, a) :
       ValorCom(linha, conf, a, w) <= ValorCom(linha, conf, a, u)}

Minimo(S) == CHOOSE m \in S : \A n \in S : m <= n

Vivos ==
  {s \in (Linhas \ {0}) \X Confs \X Confs :
     memo_[s[1]][s[2]][s[3]].calculado /\ memo_[s[1]][s[2]][s[3]].valor # -1}

AncorasMelhores ==
  {a \in Confs : /\ memo_[L_ - 1][a][a].valor # -1
                 /\ \A b \in Confs : memo_[L_ - 1][b][b].valor <= memo_[L_ - 1][a][a].valor}

\* C10: for every live state of a row > 0 the memoized predecessor is the
\* smallest configuration of the row above that is compatible, not dead and
\* achieves the maximum; the anchor chosen is the smallest that achieves the
\* global maximum.
Teorema_C10 ==
  resolvido >= 1 =>
    /\ \A s \in Vivos :
         /\ Melhores(s[1], s[2], s[3]) # {}
         /\ memo_[s[1]][s[2]][s[3]].conf = Minimo(Melhores(s[1], s[2], s[3]))
         /\ memo_[s[1]][s[2]][s[3]].valor
              = ValorCom(s[1], s[2], s[3], memo_[s[1]][s[2]][s[3]].conf)
    /\ AncorasMelhores # {}
    /\ conf_inicial_maxima = Minimo(AncorasMelhores)

\* a solved box with a live state that has two best predecessors, and two best anchors
Testemunha_C10 ==
  /\ resolvido = 1
  /\ \E s \in Vivos : Cardinality(Melhores(s[1], s[2], s[3])) >= 2
  /\ Cardinality(AncorasMelhores) >= 2

====
